---- MODULE Spec2Model ----
(***************************************************************************)
(* A model of the vectored queue: the core queue (src/src/queue.rs), its   *)
(* slice buffer (src/src/buffer.rs) and the batch handle                   *)
(* (src/src/vectored.rs).                                                  *)
(*                                                                         *)
(* Threads: NumProducers producer threads, each calling try_enqueue or     *)
(* enqueue_unbounded, and one consumer thread calling try_dequeue and      *)
(* dropping the batch it got (it may call try_dequeue again while it still *)
(* holds the batch, as the repository's test does).  close, reopen and     *)
(* set_capacity are single atomic operations any thread may call.          *)
(*                                                                         *)
(* A machine word has WordBits bits; all packed words are kept modulo      *)
(* 2^WordBits.  A payload is a positive integer id; its byte view has      *)
(* SizeOf(id) bytes.  A slice is a record naming the payload it points     *)
(* into and its length; the empty slice points into nothing.               *)
(***************************************************************************)
EXTENDS Integers, Sequences, FiniteSets, TLC

\* ------------------------------------------------------------------ bounds
WordBits == 6
MaxCap == 2
MaxPayloads == 3
NumProducers == 2

Producers == 1..NumProducers
Payloads == 1..MaxPayloads
\* thread ids as owners of the tmp mutex
NoThread == -1
\* the mutex after a thread panicked while holding it
Poisoned == -2

\* ------------------------------------------------------- words and packing
USIZE_MOD == 2^WordBits
USIZE_MAX == USIZE_MOD - 1
\* queue.rs:16  (usize::MAX >> 1) + 1
CLOSED_FLAG == (USIZE_MAX \div 2) + 1

\* x & 1
LowBit(x) == x % 2
\* x >> 1
Shr1(x) == x \div 2
\* !x & 1
NotLowBit(x) == 1 - (x % 2)
\* x & CLOSED_FLAG != 0 (CLOSED_FLAG is the top bit of the word)
HasClosedFlag(x) == x >= CLOSED_FLAG
\* x & CLOSED_FLAG
ClosedPart(x) == IF x >= CLOSED_FLAG THEN CLOSED_FLAG ELSE 0
\* x & !CLOSED_FLAG
WithoutClosedFlag(x) == x % CLOSED_FLAG
\* (x << 1) as the machine computes it: bits shifted out are lost
Shl1(x) == (2 * x) % USIZE_MOD
\* a - b as the machine computes it when overflow checks are off
WrappingSub(a, b) == (a - b + USIZE_MOD) % USIZE_MOD

\* the byte length of payload p's byte view (AsRef<[u8]>)
SizeOf(p) == p % 3

\* buffer.rs:10  EMPTY_SLICE
EMPTY_SLICE == [data |-> 0, len |-> 0]
\* buffer.rs:89  IoSlice::new(owned_bytes.as_ref())
SliceOf(p) == [data |-> p, len |-> SizeOf(p)]
\* MaybeUninit::uninit()
Uninit == 0

VARIABLES
    buffer_remain,    \* queue.rs:19  packed [closed | remaining_slots | active_index]
    pending_dequeue,  \* queue.rs:20  packed [draining_len | drain_index], USIZE_MAX = ticket held
    capacity,         \* queue.rs:21  target capacity
    buffers,          \* queue.rs:22  [0..1 -> Buffer]
    tmp,              \* queue.rs:23  the overflow Vec
    tmp_lock,         \* the thread holding the tmp mutex, or NoThread
    prod,             \* each producer thread's position and locals
    cons,             \* the consumer thread's position, locals and batch handle
    next_payload,     \* the id the next enqueue call gets
    enq_ok,           \* payloads whose enqueue call returned Ok
    delivered,        \* payload id -> how many times it was in a released batch
    bytes_out,        \* sum of total_size over the batches try_dequeue returned
    user_closed,      \* close() was called and reopen() has not been since
    stopped,          \* the producers have stopped calling
    sync              \* sync.rs:15-20  the blocking adapter: lock, wait_dequeue, and
                      \* where each thread is in its adapter call

vars == <<buffer_remain, pending_dequeue, capacity, buffers, tmp, tmp_lock,
          prod, cons, next_payload, enq_ok, delivered, bytes_out,
          user_closed, stopped, sync>>

\* ---------------------------------------------------------------- Buffer
\* Buffer::resize replacing the storage whatever the capacity asked for
ResizedAlways(b, c) ==
    [b EXCEPT !.owned = [i \in 1..c |-> Uninit],
              !.slices = [i \in 1..(c + 2) |-> EMPTY_SLICE]]

\* buffer.rs:51-58  Buffer::resize, on a buffer record
ResizedBuffer(b, c) ==
    IF c > Len(b.owned)
    THEN [b EXCEPT !.owned = [i \in 1..c |-> Uninit],
                   !.slices = [i \in 1..(c + 2) |-> EMPTY_SLICE]]
    ELSE b

\* buffer.rs:23-41  Buffer::default / Buffer::with_capacity
BufferWithCapacity(c) ==
    ResizedBuffer([owned |-> <<>>, slices |-> <<>>, len |-> 0, total_size |-> 0], c)

\* buffer.rs:43-45  Buffer::capacity
BufCapacity(b) == Len(b.owned)

\* insert filling the storage from the back: index = slot - 1
BackToFront(cap, slot) == slot - 1

\* insert writing every payload to the first storage index
AlwaysFirstIndex(cap, slot) == 0

\* buffer.rs:87  the storage index insert computes from the reservation number
InsertIndex(cap, slot) == cap - slot

\* buffer.rs:87-88  insert panics when the index is out of bounds (or the
\* subtraction overflows)
InsertInBounds(b, slot) ==
    /\ slot <= BufCapacity(b)
    /\ InsertIndex(BufCapacity(b), slot) < BufCapacity(b)
    /\ InsertIndex(BufCapacity(b), slot) >= 0

\* buffer.rs:87-91  insert up to total_size.fetch_add: the payload is written
\* to storage, its slice is stored, total_size grows
InsertWritten(b, slot, p) ==
    LET index == InsertIndex(BufCapacity(b), slot)
    IN  [b EXCEPT !.owned[index + 1] = p,
                  !.slices[index + 2] = SliceOf(p),
                  !.total_size = (b.total_size + SliceOf(p).len) % USIZE_MOD]

\* buffer.rs:92  len.fetch_add(1)
InsertPublished(b) == [b EXCEPT !.len = (b.len + 1) % USIZE_MOD]

\* buffer.rs:86-93  the whole of Buffer::insert (used by the consumer's
\* pre-fill, which nobody can observe half-way)
Inserted(b, slot, p) == InsertPublished(InsertWritten(b, slot, p))

\* Buffer::clear forgetting to reset the published length
ClearedKeepsLen(b, n) ==
    [b EXCEPT !.owned = [i \in 1..Len(b.owned) |-> IF i <= n THEN Uninit ELSE b.owned[i]],
              !.total_size = 0]

\* Buffer::clear forgetting to reset total_size
ClearedKeepsTotalSize(b, n) ==
    [b EXCEPT !.owned = [i \in 1..Len(b.owned) |-> IF i <= n THEN Uninit ELSE b.owned[i]],
              !.len = 0]

\* buffer.rs:73-79  Buffer::clear
Cleared(b, n) ==
    [b EXCEPT !.owned = [i \in 1..Len(b.owned) |-> IF i <= n THEN Uninit ELSE b.owned[i]],
              !.len = 0,
              !.total_size = 0]

\* Buffer::get returning the view without waiting for the published length
GetWithoutWaiting(b, len) == TRUE

\* buffer.rs:60-71  Buffer::get: the length matches the published one
GetReady(b, len) == b.len = len

\* buffer.rs:64  the view &slices[..len + 2] (as a sequence)
SlicesView(b, len) == SubSeq(b.slices, 1, len + 2)

\* vectored.rs:38-40  Deref: the payload slices &slices[1..slices.len() - 1]
PayloadSlices(view) == SubSeq(view, 2, Len(view) - 1)

\* ----------------------------------------------------------------- Queue
\* queue.rs:50-52  current_buffer
CurrentBuffer == buffers[LowBit(buffer_remain)]

\* queue.rs:54-56  capacity()
QueueCapacity == BufCapacity(CurrentBuffer)

\* queue.rs:73-75  len()
QueueLen == CurrentBuffer.len + Len(tmp)

\* queue.rs:85-87  is_closed()
IsClosed == HasClosedFlag(buffer_remain)

\* set_capacity storing its argument whatever the current value
StoredCapacity(cur, c) == c

\* queue.rs:58-71  set_capacity: the value capacity holds afterwards
RaisedCapacity(cur, c) == IF c > cur THEN c ELSE cur

\* queue.rs:105  remaining_slots as try_enqueue reads it: buffer_remain >> 1
\* (the closed flag has been ruled out before)
RemainingSlots(br) == Shr1(br)

\* try_enqueue reporting Full whatever the remaining slots
AlwaysFull(br) == IF HasClosedFlag(br) THEN "Closed" ELSE "Full"

\* try_enqueue testing for Full before Closed
FullBeforeClosed(br) ==
    IF Shr1(WithoutClosedFlag(br)) = 0 THEN "Full"
    ELSE IF HasClosedFlag(br) THEN "Closed"
    ELSE "Reserve"

\* queue.rs:102-107  what try_enqueue decides on the word it loaded
EnqueueDecision(br) ==
    IF HasClosedFlag(br) THEN "Closed"
    ELSE IF RemainingSlots(br) = 0 THEN "Full"
    ELSE "Reserve"

\* queue.rs:110  the word try_enqueue's compare-exchange installs
Reserved(br) == br - 2

\* Option<IoSlice>: None and Some(slice)
None == [some |-> FALSE, slice |-> EMPTY_SLICE]
Some(x) == [some |-> TRUE, slice |-> x]

\* a bound of the range given to frame (core::ops::Bound)
Unbounded == [kind |-> "Unbounded", n |-> 0]
Included(k) == [kind |-> "Included", n |-> k]
Excluded(k) == [kind |-> "Excluded", n |-> k]

\* vectored.rs:105-109  no VectoredFrame is alive.  A live one is the
\* sub-slice [start, end) of the batch's slice array with the values its
\* header and trailer fields hold; range, given and before remember the
\* arguments of the frame call and the slice array it found.
NoFrame == [active |-> FALSE, start |-> 0, end |-> 0, header |-> None, trailer |-> None,
            range |-> <<Unbounded, Unbounded>>, given |-> <<None, None>>, before |-> <<>>]

\* the consumer thread's id (producer threads are 1..NumProducers)
ConsumerThread == 0
Threads == Producers \cup {ConsumerThread}

\* sync.rs:33-40  SyncVectoredQueue::with_capacity: the mutex is free,
\* wait_dequeue is true, no thread is in an adapter call
SyncInit == [lock |-> NoThread, wait_dequeue |-> TRUE, pc |-> [t \in Threads |-> "idle"]]

IdleProducer == [pc |-> "idle", op |-> "none", bytes |-> 0, br |-> 0,
                 res |-> "none", ret |-> 0]

IdleConsumer == [pc |-> "idle", pending |-> 0, br |-> 0, capa |-> 0, len |-> 0,
                 res |-> "none", held |-> FALSE, buffer_index |-> 0,
                 slices_len |-> 0, total_size |-> 0, items |-> <<>>,
                 deferred |-> FALSE, frame |-> NoFrame,
                 reserved |-> {}, overflow |-> {},
                 prefilled |-> [i \in 0..1 |-> <<>>]]

\* queue.rs:37-48  with_capacity(c)
WithCapacity(c) ==
    /\ buffer_remain = Shl1(c)
    /\ pending_dequeue = 0
    /\ capacity = c
    /\ buffers = [i \in 0..1 |-> BufferWithCapacity(c)]
    /\ tmp = <<>>
    /\ tmp_lock = NoThread
    /\ prod = [p \in Producers |-> IdleProducer]
    /\ cons = IdleConsumer
    /\ next_payload = 1
    /\ enq_ok = {}
    /\ delivered = [x \in Payloads |-> 0]
    /\ bytes_out = 0
    /\ user_closed = FALSE
    /\ stopped = FALSE
    /\ sync = SyncInit

\* queue.rs:33-35  new() is with_capacity(0)
Init == \E c \in 0..MaxCap : WithCapacity(c)

\* ------------------------------------------------------ producer threads
\* what a returning enqueue call leaves in the producer's record
Returned(p, op, result, payload) ==
    [prod EXCEPT ![p] = [IdleProducer EXCEPT !.op = op, !.res = result, !.ret = payload]]

\* queue.rs:99-120  try_enqueue(bytes) up to the end of its compare-exchange
\* loop: Closed(bytes), Full(bytes), or a slot reserved.  The loop is one
\* step, taken at the load its last iteration acted on.
TryEnqueue(p) ==
    /\ ~stopped
    /\ prod[p].pc = "idle"
    /\ next_payload <= MaxPayloads
    /\ next_payload' = next_payload + 1
    /\ LET bytes == next_payload
           d == EnqueueDecision(buffer_remain)
       IN  IF d = "Reserve"
           THEN /\ buffer_remain' = Reserved(buffer_remain)
                /\ prod' = [prod EXCEPT ![p] = [IdleProducer EXCEPT
                              !.pc = "insert_w", !.op = "try_enqueue",
                              !.bytes = bytes, !.br = buffer_remain]]
           ELSE /\ prod' = Returned(p, "try_enqueue", d, bytes)
                /\ UNCHANGED buffer_remain
    /\ UNCHANGED <<pending_dequeue, capacity, buffers, tmp, tmp_lock, cons,
                   enq_ok, delivered, bytes_out, user_closed, stopped, sync>>

\* queue.rs:118 / buffer.rs:86-91  the reserving producer writes its payload
\* and slice and adds to total_size; an index out of bounds panics
InsertWrite(p) ==
    /\ prod[p].pc = "insert_w"
    /\ LET i == LowBit(prod[p].br)
           slot == Shr1(prod[p].br)
       IN  IF InsertInBounds(buffers[i], slot)
           THEN /\ buffers' = [buffers EXCEPT ![i] = InsertWritten(buffers[i], slot, prod[p].bytes)]
                /\ prod' = [prod EXCEPT ![p].pc = "insert_p"]
                /\ UNCHANGED tmp_lock
           ELSE /\ prod' = [prod EXCEPT ![p].pc = "panicked", ![p].res = "Panic"]
                /\ tmp_lock' = IF tmp_lock = p THEN Poisoned ELSE tmp_lock
                /\ UNCHANGED buffers
    /\ UNCHANGED <<buffer_remain, pending_dequeue, capacity, tmp, cons, next_payload,
                   enq_ok, delivered, bytes_out, user_closed, stopped, sync>>

\* buffer.rs:92 / queue.rs:119,138  len is published and the call returns Ok;
\* enqueue_unbounded's second try drops the tmp guard on return
InsertPublish(p) ==
    /\ prod[p].pc = "insert_p"
    /\ LET i == LowBit(prod[p].br)
       IN  buffers' = [buffers EXCEPT ![i] = InsertPublished(buffers[i])]
    /\ prod' = Returned(p, prod[p].op, "Ok", prod[p].bytes)
    /\ enq_ok' = enq_ok \cup {prod[p].bytes}
    /\ tmp_lock' = IF tmp_lock = p THEN NoThread ELSE tmp_lock
    /\ UNCHANGED <<buffer_remain, pending_dequeue, capacity, tmp, cons, next_payload,
                   delivered, bytes_out, user_closed, stopped, sync>>

\* queue.rs:123-127  enqueue_unbounded's first try_enqueue
EuFirstTry(p, bytes) ==
    LET d == EnqueueDecision(buffer_remain)
    IN  /\ CASE d = "Reserve" ->
                 /\ buffer_remain' = Reserved(buffer_remain)
                 /\ prod' = [prod EXCEPT ![p] = [IdleProducer EXCEPT
                               !.pc = "insert_w", !.op = "enqueue_unbounded",
                               !.bytes = bytes, !.br = buffer_remain]]
             [] d = "Closed" ->
                 /\ prod' = Returned(p, "enqueue_unbounded", "Closed", bytes)
                 /\ UNCHANGED buffer_remain
             [] d = "Full" ->
                 /\ prod' = [prod EXCEPT ![p] = [IdleProducer EXCEPT
                               !.pc = "eu_lock", !.op = "enqueue_unbounded",
                               !.bytes = bytes]]
                 /\ UNCHANGED buffer_remain
        /\ UNCHANGED <<pending_dequeue, capacity, buffers, tmp, tmp_lock, cons,
                       enq_ok, delivered, bytes_out, user_closed, stopped, sync>>

\* queue.rs:122-127  a call of enqueue_unbounded(bytes)
EnqueueUnbounded(p) ==
    /\ ~stopped
    /\ prod[p].pc = "idle"
    /\ next_payload <= MaxPayloads
    /\ next_payload' = next_payload + 1
    /\ EuFirstTry(p, next_payload)

\* queue.rs:135  return self.enqueue_unbounded(bytes): the recursive call
EuRecurse(p) ==
    /\ prod[p].pc = "eu_retry"
    /\ UNCHANGED next_payload
    /\ EuFirstTry(p, prod[p].bytes)

\* queue.rs:128-142  enqueue_unbounded takes the tmp mutex.  With capacity()
\* 0 it raises the capacity and resizes both buffers (the store follows in
\* EuStore); otherwise it tries again and pushes to tmp when still Full.
\* lock().unwrap() panics on a poisoned mutex.
EuLocked(p) ==
    /\ prod[p].pc = "eu_lock"
    /\ tmp_lock \in {NoThread, Poisoned}
    /\ IF tmp_lock = Poisoned
       THEN /\ prod' = [prod EXCEPT ![p].pc = "panicked", ![p].res = "Panic"]
            /\ UNCHANGED <<buffer_remain, capacity, buffers, tmp, tmp_lock, enq_ok>>
       ELSE IF QueueCapacity = 0
       THEN /\ capacity' = RaisedCapacity(capacity, 1)
            /\ buffers' = [i \in 0..1 |-> ResizedBuffer(buffers[i], 1)]
            /\ tmp_lock' = p
            /\ prod' = [prod EXCEPT ![p].pc = "eu_store"]
            /\ UNCHANGED <<buffer_remain, tmp, enq_ok>>
       ELSE LET d == EnqueueDecision(buffer_remain)
            IN  CASE d = "Reserve" ->
                     /\ buffer_remain' = Reserved(buffer_remain)
                     /\ prod' = [prod EXCEPT ![p].pc = "insert_w", ![p].br = buffer_remain]
                     /\ tmp_lock' = p
                     /\ UNCHANGED <<capacity, buffers, tmp, enq_ok>>
                  [] d = "Closed" ->
                     /\ prod' = Returned(p, "enqueue_unbounded", "Closed", prod[p].bytes)
                     /\ UNCHANGED <<buffer_remain, capacity, buffers, tmp, tmp_lock, enq_ok>>
                  [] d = "Full" ->
                     /\ tmp' = Append(tmp, prod[p].bytes)
                     /\ prod' = Returned(p, "enqueue_unbounded", "Ok", prod[p].bytes)
                     /\ enq_ok' = enq_ok \cup {prod[p].bytes}
                     /\ UNCHANGED <<buffer_remain, capacity, buffers, tmp_lock>>
    /\ UNCHANGED <<pending_dequeue, cons, next_payload, delivered, bytes_out,
                   user_closed, stopped, sync>>

\* queue.rs:133  the word enqueue_unbounded stores after growing from capacity 0
GrownFromZero == 1

\* queue.rs:133-135  buffer_remain.store(1); drop(tmp); then the recursive call
EuStore(p) ==
    /\ prod[p].pc = "eu_store"
    /\ buffer_remain' = GrownFromZero
    /\ tmp_lock' = NoThread
    /\ prod' = [prod EXCEPT ![p].pc = "eu_retry"]
    /\ UNCHANGED <<pending_dequeue, capacity, buffers, tmp, cons, next_payload,
                   enq_ok, delivered, bytes_out, user_closed, stopped, sync>>

\* ------------------------------------------------------ consumer thread
\* what a returning try_dequeue leaves in the consumer's record
Result(r) == [cons EXCEPT !.pc = "idle", !.res = r, !.pending = 0, !.br = 0,
                           !.capa = 0, !.len = 0]

\* a panic inside try_dequeue: the thread is gone, the ticket stays taken
Panicked == [cons EXCEPT !.pc = "panicked", !.res = "Panic", !.pending = 0, !.br = 0,
                          !.capa = 0, !.len = 0, !.buffer_index = 0]

\* try_dequeue not checking the value it swapped out
NeverConflict(pd) == FALSE

\* queue.rs:147  the swapped-out value is the sentinel: another consumer holds the ticket
IsConflict(pd) == pd = USIZE_MAX

\* queue.rs:153  the ticket carries no draining length: the rotate path
IsArmed(pd) == Shr1(pd) = 0

\* the rotate path taking "no remaining slot" for "nothing reserved"
NothingRemaining(br, buffer_capa) == Shr1(WithoutClosedFlag(br)) = 0

\* queue.rs:156  the rotate path finds nothing reserved in the buffer
NothingReserved(br, buffer_capa) == Shr1(WithoutClosedFlag(br)) = buffer_capa

\* queue.rs:159-163  what the empty exit returns
EmptyExit(br) == IF HasClosedFlag(br) THEN "Closed" ELSE "Empty"

\* queue.rs:145-165,188-190  try_dequeue from its swap of pending_dequeue to
\* the choice of path: Conflict; on an armed ticket the assertion, then
\* Closed / Empty (ticket stored back) or the rotation; on a deferred ticket
\* the snapshot at the deferred length
TryDequeue ==
    /\ cons.pc = "idle"
    /\ LET pd == pending_dequeue
           buffer_index == LowBit(pd)
           br == buffer_remain
           buffer_capa == BufCapacity(buffers[buffer_index])
       IN  IF IsConflict(pd)
           THEN /\ cons' = Result("Conflict")
                /\ pending_dequeue' = USIZE_MAX
           ELSE IF ~IsArmed(pd)
           THEN /\ cons' = [cons EXCEPT !.pc = "get", !.pending = pd, !.br = br,
                                        !.buffer_index = buffer_index, !.len = Shr1(pd)]
                /\ pending_dequeue' = USIZE_MAX
           ELSE IF buffer_index # LowBit(br)
           THEN /\ cons' = Panicked
                /\ pending_dequeue' = USIZE_MAX
           ELSE IF NothingReserved(br, buffer_capa)
           THEN /\ cons' = Result(EmptyExit(br))
                /\ pending_dequeue' = pd
           ELSE /\ cons' = [cons EXCEPT !.pc = "rotate", !.pending = pd, !.br = br,
                                        !.buffer_index = buffer_index, !.capa = buffer_capa]
                /\ pending_dequeue' = USIZE_MAX
    /\ UNCHANGED <<buffer_remain, capacity, buffers, tmp, tmp_lock, prod, next_payload,
                   enq_ok, delivered, bytes_out, user_closed, stopped, sync>>

\* the elements of a sequence
Range(seq) == {seq[i] : i \in 1..Len(seq)}

\* the payloads that hold a slot of buffer i: those written to its storage
\* and those of the producers that reserved in it and have not inserted yet
ReservedIn(i) ==
    {x \in Range(buffers[i].owned) : x # Uninit}
        \cup {prod[p].bytes : p \in {q \in Producers :
                  prod[q].pc \in {"insert_w", "insert_p"} /\ LowBit(prod[q].br) = i}}

\* the rotation inserting the overflow from the last slot down
RECURSIVE PrefilledFromTheBack(_, _, _, _)
PrefilledFromTheBack(b, items, next_capa, i) ==
    IF i >= Len(items) THEN b
    ELSE PrefilledFromTheBack(Inserted(b, i + 1, items[i + 1]), items, next_capa, i + 1)

\* the rotation losing the overflow instead of inserting it
NotPrefilled(b, items, next_capa, i) == b

\* queue.rs:175-177  the overflow payloads inserted into the next buffer,
\* the i-th (from 0) with reservation number next_capa - i
RECURSIVE Prefilled(_, _, _, _)
Prefilled(b, items, next_capa, i) ==
    IF i >= Len(items) THEN b
    ELSE Prefilled(Inserted(b, next_capa - i, items[i + 1]), items, next_capa, i + 1)

\* queue.rs:169-172  cmp::max(next_buffer.capacity() + tmp_len, capacity)
NextCapa(next_buffer_capa, tmp_len, cap) ==
    IF next_buffer_capa + tmp_len >= cap THEN next_buffer_capa + tmp_len ELSE cap

\* the rotation publishing the pre-filled slots as free
NextBufferRemainFull(next_buffer_index, next_capa, tmp_len) ==
    next_buffer_index + Shl1(next_capa)

\* queue.rs:178  next_buffer_index | ((next_capa - tmp_len) << 1)
NextBufferRemain(next_buffer_index, next_capa, tmp_len) ==
    next_buffer_index + Shl1(next_capa - tmp_len)

\* queue.rs:181  the word the rotate compare-exchange installs over `current`
RotatedWord(next_buffer_remain, current) == next_buffer_remain + ClosedPart(current)

\* queue.rs:187  the shift in buffer_capa - (buffer_remain >> 1)
DrainedRemain(br) == Shr1(br)

\* queue.rs:165-187  the rotation (reserved and overflow remember which
\* payloads held a slot of the drained buffer, and which were in tmp, when
\* the compare-exchange succeeded; prefilled remembers, for each buffer, the
\* overflow moved into it when it last became active): under the tmp mutex
\* the next buffer is grown and pre-filled with the overflow, the
\* compare-exchange loop installs the new word over the current one, and the
\* drained length is computed.
\* The subtraction overflows when buffer_remain >> 1 exceeds the capacity:
\* a panic where overflow checks are on, a wrapped value where they are off.
Rotate ==
    /\ cons.pc = "rotate"
    /\ tmp_lock \in {NoThread, Poisoned}
    /\ IF tmp_lock = Poisoned
       THEN /\ cons' = Panicked
            /\ UNCHANGED <<buffer_remain, capacity, buffers, tmp, tmp_lock>>
       ELSE LET next_buffer_index == NotLowBit(cons.br)
                next_buffer == buffers[next_buffer_index]
                tmp_len == Len(tmp)
                next_capa == NextCapa(BufCapacity(next_buffer), tmp_len, capacity)
                next_buffer_remain == NextBufferRemain(next_buffer_index, next_capa, tmp_len)
                current == buffer_remain
            IN  /\ capacity' = RaisedCapacity(capacity, next_capa)
                /\ buffers' = [buffers EXCEPT ![next_buffer_index] =
                                 Prefilled(ResizedBuffer(next_buffer, next_capa), tmp, next_capa, 0)]
                /\ tmp' = <<>>
                /\ buffer_remain' = RotatedWord(next_buffer_remain, current)
                /\ IF DrainedRemain(current) <= cons.capa
                   THEN /\ cons' = [cons EXCEPT !.pc = "get", !.br = current,
                                                !.len = cons.capa - DrainedRemain(current),
                                                !.reserved = ReservedIn(cons.buffer_index),
                                                !.overflow = Range(tmp),
                                                !.prefilled[next_buffer_index] = tmp]
                        /\ UNCHANGED tmp_lock
                   ELSE \E overflow_checks \in BOOLEAN :
                          IF overflow_checks
                          THEN /\ cons' = Panicked
                               /\ tmp_lock' = Poisoned
                          ELSE /\ cons' = [cons EXCEPT !.pc = "get", !.br = current,
                                             !.len = WrappingSub(cons.capa, DrainedRemain(current)),
                                             !.reserved = ReservedIn(cons.buffer_index),
                                             !.overflow = Range(tmp),
                                             !.prefilled[next_buffer_index] = tmp]
                               /\ UNCHANGED tmp_lock
    /\ UNCHANGED <<pending_dequeue, prod, next_payload, enq_ok, delivered, bytes_out,
                   user_closed, stopped, sync>>

\* the payload ids the batch's payload slices point into
RECURSIVE ItemsOf(_)
ItemsOf(slices) ==
    IF slices = <<>> THEN <<>>
    ELSE <<Head(slices).data>> \o ItemsOf(Tail(slices))

\* the Pending exit storing the index of the other buffer
DeferredOther(buffer_index, len) == (NotLowBit(buffer_index) + Shl1(len)) % USIZE_MOD

\* queue.rs:192  buffer_index | (len << 1)
DeferredWord(buffer_index, len) == (buffer_index + Shl1(len)) % USIZE_MOD

\* queue.rs:191-200  the snapshot: Buffer::get returns the view once the
\* published length is the expected one (a batch handle is returned, the
\* ticket stays taken) or gives up after its spins (Pending, the ticket is
\* stored back with the length)
Get ==
    /\ cons.pc = "get"
    /\ LET b == buffers[cons.buffer_index]
       IN  IF GetReady(b, cons.len)
           THEN /\ cons' = [Result("Vectored") EXCEPT
                              !.held = TRUE,
                              !.slices_len = Len(SlicesView(b, cons.len)),
                              !.total_size = b.total_size,
                              !.items = ItemsOf(PayloadSlices(SlicesView(b, cons.len)))]
                /\ bytes_out' = bytes_out + b.total_size
                /\ UNCHANGED pending_dequeue
           ELSE /\ cons' = [Result("Pending") EXCEPT !.deferred = TRUE, !.buffer_index = 0]
                /\ pending_dequeue' = DeferredWord(cons.buffer_index, cons.len)
                /\ UNCHANGED bytes_out
    /\ UNCHANGED <<buffer_remain, capacity, buffers, tmp, tmp_lock, prod, next_payload,
                   enq_ok, delivered, user_closed, stopped, sync>>

\* release re-arming the buffer it has just cleared
RearmedSame(buffer_index) == buffer_index

\* queue.rs:206-207  the word release stores: !buffer_index & 1
Rearmed(buffer_index) == NotLowBit(buffer_index)

RECURSIVE Counted(_, _)
Counted(d, items) ==
    IF items = <<>> THEN d
    ELSE Counted([d EXCEPT ![Head(items)] = @ + 1], Tail(items))

\* vectored.rs:96-103, queue.rs:203-208  the batch handle is dropped:
\* release(buffer_index, slices.len() - 2) clears the buffer and re-arms.
\* A frame is made from a mutable borrow of the batch, and the batch is
\* dropped once its frame is gone.
DropVectored ==
    /\ cons.pc = "idle"
    /\ cons.held
    /\ ~cons.frame.active
    /\ buffers' = [buffers EXCEPT ![cons.buffer_index] =
                     Cleared(buffers[cons.buffer_index], cons.slices_len - 2)]
    /\ pending_dequeue' = Rearmed(cons.buffer_index)
    /\ delivered' = Counted(delivered, SelectSeq(cons.items, LAMBDA x : x \in Payloads))
    /\ cons' = [cons EXCEPT !.held = FALSE, !.slices_len = 0, !.total_size = 0,
                            !.items = <<>>, !.res = "none", !.buffer_index = 0,
                            !.reserved = {}, !.overflow = {}]
    /\ UNCHANGED <<buffer_remain, capacity, tmp, tmp_lock, prod, next_payload,
                   enq_ok, bytes_out, user_closed, stopped, sync>>

\* ------------------------------------------------------- frames of a batch
\* the buffer the held batch handle points into, and its number of payloads
HeldBuffer == buffers[cons.buffer_index]
HeldLen == cons.slices_len - 2

\* vectored.rs:17  the batch's slice array: the first slices_len entries of
\* the buffer's slices
BatchSlices == SubSeq(HeldBuffer.slices, 1, cons.slices_len)

\* the buffer with the batch's slice array replaced by view
WithBatchSlices(b, view) ==
    [b EXCEPT !.slices = view \o SubSeq(b.slices, Len(view) + 1, Len(b.slices))]

\* frame reading the unbounded end as one slot short of the slice array
FrameEndShort(bound, slices_len) ==
    CASE bound.kind = "Included" -> bound.n + 2
      [] bound.kind = "Excluded" -> bound.n + 1
      [] bound.kind = "Unbounded" -> slices_len - 1

\* vectored.rs:67-71  start from range.start_bound()
FrameStart(bound) ==
    CASE bound.kind = "Included" -> bound.n
      [] bound.kind = "Excluded" -> bound.n + 1
      [] bound.kind = "Unbounded" -> 0

\* vectored.rs:72-76  end from range.end_bound()
FrameEnd(bound, slices_len) ==
    CASE bound.kind = "Included" -> bound.n + 2
      [] bound.kind = "Excluded" -> bound.n + 1
      [] bound.kind = "Unbounded" -> slices_len

\* vectored.rs:77-92  what frame does to the slice array `view` (indices from
\* 0 in the code, from 1 here): the header is swapped with slices[start] or
\* start moves up, the trailer is swapped with slices[end - 1] or end moves
\* down, and the frame is slices[start..end].  An index or a range out of
\* bounds panics, after the swaps made so far.
Framed(view, start_bound, end_bound, header, trailer) ==
    LET start0 == FrameStart(start_bound)
        end0 == FrameEnd(end_bound, Len(view))
        header_ok == ~header.some \/ start0 < Len(view)
        swap_h == header.some /\ header_ok
        v1 == IF swap_h THEN [view EXCEPT ![start0 + 1] = header.slice] ELSE view
        start1 == IF header.some THEN start0 ELSE start0 + 1
        trailer_ok == header_ok /\ (~trailer.some \/ end0 - 1 < Len(view))
        swap_t == trailer.some /\ trailer_ok
        v2 == IF swap_t THEN [v1 EXCEPT ![end0] = trailer.slice] ELSE v1
        end1 == IF trailer.some THEN end0 ELSE end0 - 1
    IN  [panic   |-> ~(trailer_ok /\ start1 <= end1 /\ end1 <= Len(view)),
         slices  |-> v2,
         start   |-> start1,
         end     |-> end1,
         header  |-> IF swap_h THEN Some(view[start0 + 1]) ELSE None,
         trailer |-> IF swap_t THEN Some(v1[end0]) ELSE None]

\* vectored.rs:130-138  what dropping the frame f does to the slice array:
\* slices[0] of the frame gets the header field back, slices[len - 1] the
\* trailer field.  On an empty frame either index is out of bounds.
FrameDropPanics(f) == (f.header.some \/ f.trailer.some) /\ f.end = f.start

FrameDropped(view, f) ==
    LET v1 == IF f.header.some THEN [view EXCEPT ![f.start + 1] = f.header.slice] ELSE view
    IN  IF f.trailer.some THEN [v1 EXCEPT ![f.end] = f.trailer.slice] ELSE v1

\* the header and the trailer the consumer frames its batches with, and the
\* range bounds it uses
HeaderSlice == [data |-> -1, len |-> 1]
TrailerSlice == [data |-> -2, len |-> 2]
StartBounds == {Unbounded, Included(1)}
EndBounds == {Unbounded, Included(0), Included(1), Excluded(0)}

\* a panic while the batch is held: unwinding drops the batch handle
\* (release clears the buffer and re-arms) and the consumer thread is gone
Unwound(view) ==
    /\ buffers' = [buffers EXCEPT ![cons.buffer_index] =
                     Cleared(WithBatchSlices(HeldBuffer, view), HeldLen)]
    /\ pending_dequeue' = Rearmed(cons.buffer_index)
    /\ delivered' = Counted(delivered, SelectSeq(cons.items, LAMBDA x : x \in Payloads))
    /\ cons' = [Panicked EXCEPT !.held = FALSE, !.slices_len = 0, !.total_size = 0,
                                !.items = <<>>, !.frame = NoFrame,
                                !.reserved = {}, !.overflow = {}]

\* vectored.rs:61-93  batch.frame(range, header, trailer)
Frame(start_bound, end_bound, header, trailer) ==
    /\ cons.pc = "idle"
    /\ cons.held
    /\ ~cons.frame.active
    /\ LET r == Framed(BatchSlices, start_bound, end_bound, header, trailer)
       IN  IF r.panic
           THEN Unwound(r.slices)
           ELSE /\ buffers' = [buffers EXCEPT ![cons.buffer_index] =
                                 WithBatchSlices(HeldBuffer, r.slices)]
                /\ cons' = [cons EXCEPT !.frame =
                              [active |-> TRUE, start |-> r.start, end |-> r.end,
                               header |-> r.header, trailer |-> r.trailer,
                               range |-> <<start_bound, end_bound>>,
                               given |-> <<header, trailer>>,
                               before |-> BatchSlices]]
                /\ UNCHANGED <<pending_dequeue, delivered>>
    /\ UNCHANGED <<buffer_remain, capacity, tmp, tmp_lock, prod, next_payload,
                   enq_ok, bytes_out, user_closed, stopped, sync>>

\* vectored.rs:130-138  the frame is dropped
FrameDrop ==
    /\ cons.pc = "idle"
    /\ cons.frame.active
    /\ IF FrameDropPanics(cons.frame)
       THEN Unwound(BatchSlices)
       ELSE /\ buffers' = [buffers EXCEPT ![cons.buffer_index] =
                             WithBatchSlices(HeldBuffer, FrameDropped(BatchSlices, cons.frame))]
            /\ cons' = [cons EXCEPT !.frame = NoFrame]
            /\ UNCHANGED <<pending_dequeue, delivered>>
    /\ UNCHANGED <<buffer_remain, capacity, tmp, tmp_lock, prod, next_payload,
                   enq_ok, bytes_out, user_closed, stopped, sync>>

\* the slices a live frame derefs to (vectored.rs:117-122)
FrameView == SubSeq(BatchSlices, cons.frame.start + 1, cons.frame.end)

\* ------------------------------------------------- close, reopen, capacity
\* queue.rs:81-83  close(): fetch_or(CLOSED_FLAG)
Close ==
    /\ buffer_remain' = WithoutClosedFlag(buffer_remain) + CLOSED_FLAG
    /\ user_closed' = TRUE
    /\ UNCHANGED <<pending_dequeue, capacity, buffers, tmp, tmp_lock, prod, cons,
                   next_payload, enq_ok, delivered, bytes_out, stopped, sync>>

\* queue.rs:89-92  reopen(): fetch_and(!CLOSED_FLAG)
Reopen ==
    /\ buffer_remain' = WithoutClosedFlag(buffer_remain)
    /\ user_closed' = FALSE
    /\ UNCHANGED <<pending_dequeue, capacity, buffers, tmp, tmp_lock, prod, cons,
                   next_payload, enq_ok, delivered, bytes_out, stopped, sync>>

\* queue.rs:58-71  set_capacity(c)
SetCapacity(c) ==
    /\ capacity' = RaisedCapacity(capacity, c)
    /\ UNCHANGED <<buffer_remain, pending_dequeue, buffers, tmp, tmp_lock, prod, cons,
                   next_payload, enq_ok, delivered, bytes_out, user_closed, stopped, sync>>

\* the producers stop calling (every call has returned); the consumer is
\* between calls and forgets the result of its earlier calls
Stop ==
    /\ ~stopped
    /\ \A p \in Producers : prod[p].pc \in {"idle", "panicked"}
    /\ cons.pc = "idle"
    /\ stopped' = TRUE
    /\ cons' = [cons EXCEPT !.res = "none"]
    /\ UNCHANGED <<buffer_remain, pending_dequeue, capacity, buffers, tmp, tmp_lock, prod,
                   next_payload, enq_ok, delivered, bytes_out, user_closed, sync>>

Next ==
    \/ \E p \in Producers : TryEnqueue(p)
    \/ \E p \in Producers : InsertWrite(p)
    \/ \E p \in Producers : InsertPublish(p)
    \/ \E p \in Producers : EnqueueUnbounded(p)
    \/ \E p \in Producers : EuRecurse(p)
    \/ \E p \in Producers : EuLocked(p)
    \/ \E p \in Producers : EuStore(p)
    \/ TryDequeue
    \/ Rotate
    \/ Get
    \/ DropVectored
    \/ Close
    \/ Reopen
    \/ \E c \in 1..MaxCap : SetCapacity(c)
    \/ Stop

Spec == Init /\ [][Next]_vars

\* ------------------------------------------------------------ scenarios
\* Bounded mode: a queue created with a positive capacity, never closed,
\* whose producers use try_enqueue only.
InitBounded == \E c \in 1..MaxCap : WithCapacity(c)

NextBounded ==
    \/ \E p \in Producers : TryEnqueue(p)
    \/ \E p \in Producers : InsertWrite(p)
    \/ \E p \in Producers : InsertPublish(p)
    \/ TryDequeue
    \/ Rotate
    \/ Get
    \/ DropVectored
    \/ \E c \in 1..MaxCap : SetCapacity(c)
    \/ Stop

SpecBounded == InitBounded /\ [][NextBounded]_vars

\* A queue of any initial capacity that is never closed.
NextOpen ==
    \/ \E p \in Producers : TryEnqueue(p)
    \/ \E p \in Producers : InsertWrite(p)
    \/ \E p \in Producers : InsertPublish(p)
    \/ \E p \in Producers : EnqueueUnbounded(p)
    \/ \E p \in Producers : EuRecurse(p)
    \/ \E p \in Producers : EuLocked(p)
    \/ \E p \in Producers : EuStore(p)
    \/ TryDequeue
    \/ Rotate
    \/ Get
    \/ DropVectored
    \/ \E c \in 1..MaxCap : SetCapacity(c)
    \/ Stop

SpecOpen == Init /\ [][NextOpen]_vars

\* Unbounded mode from nothing: a queue created with new(), never closed,
\* whose producers use enqueue_unbounded only.  No batch handle is ever
\* handed out in this scenario, so there is none to drop.
InitNew == WithCapacity(0)

NextNew ==
    \/ \E p \in Producers : EnqueueUnbounded(p)
    \/ \E p \in Producers : EuRecurse(p)
    \/ \E p \in Producers : EuLocked(p)
    \/ \E p \in Producers : EuStore(p)
    \/ \E p \in Producers : InsertWrite(p)
    \/ \E p \in Producers : InsertPublish(p)
    \/ TryDequeue
    \/ Rotate
    \/ Get
    \/ Stop

SpecNew == InitNew /\ [][NextNew]_vars

\* A consumer that frames the batches it gets: bounded mode, never closed.
NextFrame ==
    \/ \E p \in Producers : TryEnqueue(p)
    \/ \E p \in Producers : InsertWrite(p)
    \/ \E p \in Producers : InsertPublish(p)
    \/ TryDequeue
    \/ Rotate
    \/ Get
    \/ DropVectored
    \/ \E sb \in StartBounds, eb \in EndBounds,
          h \in {None, Some(HeaderSlice)}, t \in {None, Some(TrailerSlice)} :
            Frame(sb, eb, h, t)
    \/ FrameDrop

SpecFrame == InitBounded /\ [][NextFrame]_vars

\* ------------------------------------------- the blocking adapter (sync.rs)
\* sync.pc[t] is where thread t is in its adapter call:
\*   "idle"    outside any call
\*   "insert"  a producer inside try_enqueue's insert (queue.rs:118)
\*   "lock"    blocked in lock.lock()                 (sync.rs:96,149)
\*   "locked"  a producer holding the lock, before its next try (sync.rs:98)
\*   "full"    a producer holding the lock whose try returned Full (sync.rs:101)
\*   "try"     the consumer holding the lock, inside try_dequeue_vectored
\*   "wait"    inside cond_var.wait, the lock released (sync.rs:102,156)
\*   "relock"  woken, re-acquiring the lock inside cond_var.wait
\*   "panicked"

\* Condvar::notify_all: every thread inside cond_var.wait becomes runnable
NotifyAll(pcs) == [t \in Threads |-> IF pcs[t] = "wait" THEN "relock" ELSE pcs[t]]

\* a MutexGuard dropped by thread t at the end of its call
Unlocked(t) == IF sync.lock = t THEN NoThread ELSE sync.lock

\* queue.rs:99-120  try_enqueue(bytes) for the bytes the adapter passes in
TryEnqueueWith(p, bytes) ==
    LET d == EnqueueDecision(buffer_remain)
    IN  IF d = "Reserve"
        THEN /\ buffer_remain' = Reserved(buffer_remain)
             /\ prod' = [prod EXCEPT ![p] = [IdleProducer EXCEPT
                           !.pc = "insert_w", !.op = "try_enqueue",
                           !.bytes = bytes, !.br = buffer_remain]]
        ELSE /\ prod' = Returned(p, "try_enqueue", d, bytes)
             /\ UNCHANGED buffer_remain

\* sync.rs:123-129,87-95  enqueue(bytes) = enqueue_wait(bytes, None): the
\* first try_enqueue, made without the lock.  Closed returns, Full goes on
\* to lock.lock(), a reserved slot goes on to the insert.
SyncEnqueue(p) ==
    /\ sync.pc[p] = "idle"
    /\ prod[p].pc = "idle"
    /\ next_payload <= MaxPayloads
    /\ next_payload' = next_payload + 1
    /\ TryEnqueueWith(p, next_payload)
    /\ sync' = [sync EXCEPT !.pc[p] =
                  CASE EnqueueDecision(buffer_remain) = "Reserve" -> "insert"
                    [] EnqueueDecision(buffer_remain) = "Full" -> "lock"
                    [] OTHER -> "idle"]
    /\ UNCHANGED <<pending_dequeue, capacity, buffers, tmp, tmp_lock, cons,
                   enq_ok, delivered, bytes_out, user_closed, stopped>>

\* sync.rs:81-85,75-79  try_enqueue's insert has returned Ok: wake_dequeue()
\* swaps wait_dequeue to false and, if it was true, calls notify_all (without
\* taking the lock); then the call returns Ok, dropping the guard it may hold
SyncWake(p) ==
    /\ sync.pc[p] = "insert"
    /\ prod[p].pc = "idle"
    /\ prod[p].res = "Ok"
    /\ sync' = [lock |-> Unlocked(p),
                wait_dequeue |-> FALSE,
                pc |-> [(IF sync.wait_dequeue THEN NotifyAll(sync.pc) ELSE sync.pc)
                           EXCEPT ![p] = "idle"]]
    /\ UNCHANGED <<buffer_remain, pending_dequeue, capacity, buffers, tmp, tmp_lock,
                   prod, cons, next_payload, enq_ok, delivered, bytes_out,
                   user_closed, stopped>>

\* sync.rs:96 and the re-acquisition inside cond_var.wait (sync.rs:102):
\* a producer takes the lock; on a poisoned lock unwrap() panics
SyncLock(p) ==
    /\ sync.pc[p] \in {"lock", "relock"}
    /\ sync.lock \in {NoThread, Poisoned}
    /\ sync' = IF sync.lock = Poisoned
               THEN [sync EXCEPT !.pc[p] = "panicked"]
               ELSE [sync EXCEPT !.lock = p, !.pc[p] = "locked"]
    /\ UNCHANGED <<buffer_remain, pending_dequeue, capacity, buffers, tmp, tmp_lock,
                   prod, cons, next_payload, enq_ok, delivered, bytes_out,
                   user_closed, stopped>>

\* sync.rs:97-101  under the lock, try_enqueue(bytes) again with the bytes
\* the last try gave back: Closed returns (dropping the guard), Full goes on
\* to cond_var.wait, a reserved slot goes on to the insert
SyncRetry(p) ==
    /\ sync.pc[p] = "locked"
    /\ sync.lock = p
    /\ TryEnqueueWith(p, prod[p].ret)
    /\ sync' = CASE EnqueueDecision(buffer_remain) = "Reserve" ->
                        [sync EXCEPT !.pc[p] = "insert"]
                 [] EnqueueDecision(buffer_remain) = "Full" ->
                        [sync EXCEPT !.pc[p] = "full"]
                 [] OTHER -> [sync EXCEPT !.pc[p] = "idle", !.lock = NoThread]
    /\ UNCHANGED <<pending_dequeue, capacity, buffers, tmp, tmp_lock, cons, next_payload,
                   enq_ok, delivered, bytes_out, user_closed, stopped>>

\* sync.rs:102  cond_var.wait(lock): the producer releases the lock and
\* becomes a waiter, in one step
SyncWait(p) ==
    /\ sync.pc[p] = "full"
    /\ sync.lock = p
    /\ sync' = [sync EXCEPT !.pc[p] = "wait", !.lock = NoThread]
    /\ UNCHANGED <<buffer_remain, pending_dequeue, capacity, buffers, tmp, tmp_lock,
                   prod, cons, next_payload, enq_ok, delivered, bytes_out,
                   user_closed, stopped>>

\* sync.rs:174-176,145-149  dequeue_vectored() = dequeue_vectored_wait(None)
\* is called and blocks in lock.lock()
SyncDequeue ==
    /\ sync.pc[ConsumerThread] = "idle"
    /\ cons.pc = "idle"
    /\ sync' = [sync EXCEPT !.pc[ConsumerThread] = "lock"]
    /\ UNCHANGED <<buffer_remain, pending_dequeue, capacity, buffers, tmp, tmp_lock,
                   prod, cons, next_payload, enq_ok, delivered, bytes_out,
                   user_closed, stopped>>

\* sync.rs:149-151 and the re-acquisition inside cond_var.wait (sync.rs:156):
\* the consumer takes the lock and, at the top of its loop, stores true into
\* wait_dequeue; on a poisoned lock unwrap() panics
SyncDequeueLock ==
    /\ sync.pc[ConsumerThread] \in {"lock", "relock"}
    /\ sync.lock \in {NoThread, Poisoned}
    /\ IF sync.lock = Poisoned
       THEN /\ sync' = [sync EXCEPT !.pc[ConsumerThread] = "panicked"]
            /\ UNCHANGED cons
       ELSE /\ sync' = [sync EXCEPT !.lock = ConsumerThread, !.wait_dequeue = TRUE,
                                    !.pc[ConsumerThread] = "try"]
            /\ cons' = [cons EXCEPT !.res = "none"]
    /\ UNCHANGED <<buffer_remain, pending_dequeue, capacity, buffers, tmp, tmp_lock,
                   prod, next_payload, enq_ok, delivered, bytes_out,
                   user_closed, stopped>>

\* sync.rs:152,137-143  self.try_dequeue_vectored()?: the queue's
\* try_dequeue, run under the lock (queue.rs has no try_dequeue_vectored;
\* try_dequeue is the method with that signature)
SyncTryDequeue ==
    /\ sync.pc[ConsumerThread] = "try"
    /\ cons.res = "none"
    /\ TryDequeue

\* sync.rs:139-142,152-156  what dequeue_vectored_wait does with the result
\* of try_dequeue_vectored: a batch is returned after notify_all (called
\* without the lock held by anyone else being required), an error is returned
\* by `?`, and on Empty or Pending the consumer releases the lock and waits
SyncDequeueResult ==
    /\ sync.pc[ConsumerThread] = "try"
    /\ cons.pc = "idle"
    /\ cons.res # "none"
    /\ sync' = CASE cons.res = "Vectored" ->
                        [sync EXCEPT !.lock = NoThread,
                                     !.pc = [NotifyAll(sync.pc) EXCEPT ![ConsumerThread] = "idle"]]
                 [] cons.res \in {"Empty", "Pending"} ->
                        [sync EXCEPT !.lock = NoThread, !.pc[ConsumerThread] = "wait"]
                 [] OTHER ->
                        [sync EXCEPT !.lock = NoThread, !.pc[ConsumerThread] = "idle"]
    /\ UNCHANGED <<buffer_remain, pending_dequeue, capacity, buffers, tmp, tmp_lock,
                   prod, cons, next_payload, enq_ok, delivered, bytes_out,
                   user_closed, stopped>>

\* a panic of try_dequeue under the lock: the unwinding drops the guard and
\* poisons the mutex
SyncUnwind ==
    /\ sync.pc[ConsumerThread] = "try"
    /\ cons.pc = "panicked"
    /\ sync' = [sync EXCEPT !.lock = Poisoned, !.pc[ConsumerThread] = "panicked"]
    /\ UNCHANGED <<buffer_remain, pending_dequeue, capacity, buffers, tmp, tmp_lock,
                   prod, cons, next_payload, enq_ok, delivered, bytes_out,
                   user_closed, stopped>>

\* the batch a dequeue_vectored call returned is dropped by its holder
SyncDropVectored ==
    /\ sync.pc[ConsumerThread] = "idle"
    /\ DropVectored

\* sync.rs:57-60  close(): queue.close(), then cond_var.notify_all(), the
\* lock never taken
SyncClose ==
    /\ buffer_remain' = WithoutClosedFlag(buffer_remain) + CLOSED_FLAG
    /\ user_closed' = TRUE
    /\ sync' = [sync EXCEPT !.pc = NotifyAll(sync.pc)]
    /\ UNCHANGED <<pending_dequeue, capacity, buffers, tmp, tmp_lock, prod, cons,
                   next_payload, enq_ok, delivered, bytes_out, stopped>>

\* std::sync::Condvar::wait may return without any notification
SpuriousWake(t) ==
    /\ sync.pc[t] = "wait"
    /\ sync' = [sync EXCEPT !.pc[t] = "relock"]
    /\ UNCHANGED <<buffer_remain, pending_dequeue, capacity, buffers, tmp, tmp_lock,
                   prod, cons, next_payload, enq_ok, delivered, bytes_out,
                   user_closed, stopped>>

\* the steps a producer thread takes once it is inside enqueue
ProducerStep(p) ==
    \/ InsertWrite(p)
    \/ InsertPublish(p)
    \/ SyncWake(p)
    \/ SyncRetry(p)
    \/ SyncWait(p)

\* the steps the consumer thread takes once it is inside dequeue_vectored
ConsumerStep ==
    \/ SyncTryDequeue
    \/ Rotate
    \/ Get
    \/ SyncDequeueResult
    \/ SyncUnwind

\* the blocking adapter over a queue of capacity SyncCapacity: producers
\* call enqueue, one consumer thread calls dequeue_vectored and drops its
\* batches, and close() is called from outside
SyncCapacity == 1

InitSync == WithCapacity(SyncCapacity)

NextSync ==
    \/ \E p \in Producers : SyncEnqueue(p)
    \/ \E p \in Producers : InsertWrite(p)
    \/ \E p \in Producers : InsertPublish(p)
    \/ \E p \in Producers : SyncWake(p)
    \/ \E p \in Producers : SyncLock(p)
    \/ \E p \in Producers : SyncRetry(p)
    \/ \E p \in Producers : SyncWait(p)
    \/ SyncDequeue
    \/ SyncDequeueLock
    \/ SyncTryDequeue
    \/ Rotate
    \/ Get
    \/ SyncDequeueResult
    \/ SyncUnwind
    \/ SyncDropVectored
    \/ SyncClose
    \/ \E t \in Threads : SpuriousWake(t)

\* fair scheduling: a thread that can take a step of its call eventually
\* takes one, and a thread blocked on the mutex gets it if it is free again
\* and again.  Nothing obliges a thread to start a call, close() to be
\* called, a batch to be dropped, or the condition variable to wake a waiter
\* that was not notified.
SyncFairness ==
    /\ \A p \in Producers : WF_vars(ProducerStep(p)) /\ SF_vars(SyncLock(p))
    /\ WF_vars(ConsumerStep)
    /\ SF_vars(SyncDequeueLock)

SpecSync == InitSync /\ [][NextSync]_vars /\ SyncFairness

\* --------------------------------------------------------------- claims
\* the producers have stopped and no call of theirs is in flight
ProducersDone == stopped /\ \A p \in Producers : prod[p].pc \in {"idle", "panicked"}

\* the consumer's draining loop has ended: after the producers stopped, its
\* try_dequeue reported nothing left (Empty, or Closed), or panicked
ConsumerDone ==
    \/ cons.pc = "idle" /\ ~cons.held /\ cons.res \in {"Empty", "Closed"}
    \/ cons.pc = "panicked"

\* each payload whose enqueue returned Ok was delivered once, no other was
DeliveredIsEnqueued == \A x \in Payloads : delivered[x] = IF x \in enq_ok THEN 1 ELSE 0

RECURSIVE SumSizes(_)
SumSizes(S) ==
    IF S = {} THEN 0
    ELSE LET x == CHOOSE y \in S : TRUE IN SizeOf(x) + SumSizes(S \ {x})

\* the queue's shared state (everything but the threads' own records)
queue_state == <<buffer_remain, pending_dequeue, capacity, buffers, tmp, tmp_lock>>

\* remaining_slots of the active buffer, whatever the closed bit
ActiveRemaining == Shr1(WithoutClosedFlag(buffer_remain))

\* no slot of the active buffer is reserved
ActiveUnreserved == ActiveRemaining = QueueCapacity

\* C1 (as claimed): conservation.  Once the producers have stopped and the
\* consumer's draining has ended, the payloads delivered in released batches
\* are exactly the payloads whose enqueue returned Ok, each once.
C1_Conservation == (ProducersDone /\ ConsumerDone) => DeliveredIsEnqueued

\* C2: no loss under rotation races in bounded mode.  Once the producers
\* have stopped and the consumer has drained until Empty, the sum of
\* total_size over all returned batches is the total byte length of the
\* payloads whose try_enqueue returned Ok.
C2_NoLossBounded ==
    (ProducersDone /\ cons.pc = "idle" /\ ~cons.held /\ cons.res = "Empty")
        => bytes_out = SumSizes(enq_ok)

\* C2 witness: every payload was enqueued, a snapshot was deferred on the way
\* (a producer finished its insert after the rotation), and the queue is drained
C2_Witness ==
    /\ ProducersDone /\ cons.pc = "idle" /\ ~cons.held /\ cons.res = "Empty"
    /\ enq_ok = Payloads
    /\ cons.deferred
    /\ bytes_out = SumSizes(Payloads)

\* C3: mutual exclusion of consumers.  While the batch handle is held the
\* ticket is the sentinel and the consumer is in no dequeue path; a
\* try_dequeue made meanwhile returns Conflict and changes nothing of the
\* queue; so no second handle is made.
C3_MutualExclusion ==
    /\ [](cons.held => (pending_dequeue = USIZE_MAX /\ cons.pc = "idle"))
    /\ [][(cons.held /\ TryDequeue) =>
            (/\ cons' = [cons EXCEPT !.res = "Conflict"]
             /\ UNCHANGED <<queue_state, delivered, bytes_out>>)]_vars

\* C3 witness: a handle is held, a try_dequeue made meanwhile got Conflict,
\* and an earlier handle was dropped (so try_dequeue succeeded again)
C3_Witness ==
    /\ cons.held /\ cons.res = "Conflict"
    /\ \E x \in Payloads : delivered[x] = 1

\* C4 (as claimed): closed is terminal for enqueue.  After close() and
\* before any reopen(), every try_enqueue returns Closed with the payload it
\* was given and changes nothing of the queue.
C4_ClosedTerminal ==
    [][\A p \in Producers :
         (user_closed /\ TryEnqueue(p)) =>
            (/\ prod'[p].res = "Closed"
             /\ prod'[p].ret = next_payload
             /\ UNCHANGED <<queue_state>>)]_vars

\* C5 (as claimed): the closed bit is sticky.  Once close() has set it,
\* is_closed() stays true until reopen() is called.
C5_ClosedSticky == user_closed => IsClosed

\* C6 (as claimed): close() does not prevent draining.  When try_dequeue
\* is called on a closed queue holding n >= 1 payloads (all inserts finished,
\* no batch outstanding), its rotation does not panic and computes the batch
\* length as the drained buffer's capacity minus the remaining slots,
\* whatever the closed bit: the number of payloads in the buffer.
C6_CloseKeepsDraining ==
    [][(/\ cons.pc = "rotate" /\ cons'.pc # "rotate"
        /\ cons.br >= CLOSED_FLAG /\ IsClosed
        /\ \A p \in Producers : prod[p].pc = "idle"
        /\ tmp_lock = NoThread) =>
         (/\ cons'.pc = "get"
          /\ cons'.len = cons.capa - ActiveRemaining
          /\ cons'.len = buffers[cons.buffer_index].len)]_vars

\* every payload accepted so far has been delivered in a released batch, and
\* no enqueue call is in flight: all batches are drained
AllDrained ==
    /\ DeliveredIsEnqueued
    /\ ~cons.held
    /\ \A p \in Producers : prod[p].pc = "idle"

\* C7 (as claimed): closed + empty dequeue.  After close() and draining all
\* batches, a try_dequeue that finds pending_dequeue armed (no ticket held,
\* no snapshot deferred) returns Closed, never Empty, and leaves
\* pending_dequeue as it was.
C7_ClosedEmptyDequeue ==
    [][(TryDequeue /\ IsClosed /\ pending_dequeue \div 2 = 0 /\ AllDrained) =>
         (/\ cons'.pc = "idle" /\ cons'.res = "Closed"
          /\ pending_dequeue' = pending_dequeue)]_vars

\* the scenario of C8: producer 1 alone made three enqueue_unbounded calls,
\* all returned Ok, and no dequeue has had any effect yet
ThreeUnboundedEnqueued ==
    /\ ProducersDone
    /\ enq_ok = {1, 2, 3}
    /\ next_payload = 4
    /\ \A p \in Producers \ {1} : prod[p] = IdleProducer
    /\ pending_dequeue = 0
    /\ ~cons.deferred /\ ~cons.held

\* C8 (as claimed): unbounded mode from capacity 0.  After one producer's
\* three enqueue_unbounded calls returned Ok on a queue created with new(),
\* try_dequeue does not panic and does not report Empty: it goes on to the
\* rotation and returns a batch of exactly the three payloads, and
\* capacity() is then at least 1.
C8_UnboundedFromZero ==
    /\ [][(ThreeUnboundedEnqueued /\ TryDequeue) => cons'.pc = "rotate"]_vars
    /\ [][(ProducersDone /\ enq_ok = {1, 2, 3} /\ Get) =>
            (/\ cons'.res = "Vectored"
             /\ {cons'.items[i] : i \in 1..Len(cons'.items)} = {1, 2, 3}
             /\ QueueCapacity' >= 1)]_vars

\* C9: try_enqueue returns Full exactly when the queue is not closed and
\* the active buffer has no remaining slot; Full hands back the payload and
\* changes nothing of the queue.  A rotation leaves at least one remaining
\* slot in the new active buffer, so try_enqueue succeeds again while the
\* batch is still held.
C9_FullExactly ==
    /\ [][\A p \in Producers :
            TryEnqueue(p) =>
              (/\ (prod'[p].res = "Full") <=> (~IsClosed /\ ActiveRemaining = 0)
               /\ (prod'[p].res = "Full") =>
                     (prod'[p].ret = next_payload /\ UNCHANGED <<queue_state>>)
               /\ (~IsClosed /\ ActiveRemaining > 0) =>
                     (prod'[p].pc = "insert_w" /\ buffer_remain' = buffer_remain - 2))]_vars
    /\ [][(cons.pc = "rotate" /\ cons'.pc = "get") =>
            Shr1(WithoutClosedFlag(buffer_remain')) >= 1]_vars

\* C9 witness: a try_enqueue was refused Full; then, while the consumer
\* holds the batch it rotated out, a later try_enqueue returned Ok
C9_Witness ==
    /\ cons.held
    /\ \E p, q \in Producers :
         /\ prod[p].op = "try_enqueue" /\ prod[p].res = "Full"
         /\ prod[q].op = "try_enqueue" /\ prod[q].res = "Ok"
         /\ prod[q].ret > prod[p].ret
         /\ prod[q].ret \notin {cons.items[i] : i \in 1..Len(cons.items)}

\* try_dequeue returns Empty in this step
ReturnsEmpty == TryDequeue /\ cons'.pc = "idle" /\ cons'.res = "Empty"

\* C10 (as claimed): try_dequeue returns Empty exactly when no consumer
\* holds the ticket, the queue is not closed and the active buffer has no
\* reserved slot; it then leaves pending_dequeue and the queue as they were.
C10_EmptyExactly ==
    [][TryDequeue =>
         (/\ ReturnsEmpty <=>
               (pending_dequeue # USIZE_MAX /\ ~IsClosed /\ ActiveUnreserved)
          /\ ReturnsEmpty =>
               (/\ pending_dequeue' = pending_dequeue
                /\ UNCHANGED <<buffer_remain, capacity, buffers, tmp, tmp_lock>>))]_vars

\* C10 (amended): try_dequeue returns Empty exactly when pending_dequeue is
\* armed (no consumer holds the ticket and no snapshot is deferred), the
\* queue is not closed and the active buffer has no reserved slot; it then
\* leaves pending_dequeue and the queue as they were (no rotation, no
\* resize, no change of buffer_remain).
C10_EmptyExactlyArmed ==
    [][TryDequeue =>
         (/\ ReturnsEmpty <=>
               (pending_dequeue \div 2 = 0 /\ ~IsClosed /\ ActiveUnreserved)
          /\ ReturnsEmpty =>
               (/\ pending_dequeue' = pending_dequeue
                /\ UNCHANGED <<buffer_remain, capacity, buffers, tmp, tmp_lock>>))]_vars

\* C10 witness: right after a batch was dropped, with no new enqueue,
\* try_dequeue returned Empty
C10_Witness ==
    /\ cons.pc = "idle" /\ cons.res = "Empty" /\ ~cons.held
    /\ enq_ok # {}
    /\ DeliveredIsEnqueued
    /\ \A p \in Producers : prod[p].pc = "idle"

\* the sum of the byte lengths of the payloads of a sequence
RECURSIVE SumSeqSizes(_)
SumSeqSizes(items) ==
    IF items = <<>> THEN 0 ELSE SizeOf(Head(items)) + SumSeqSizes(Tail(items))

\* C11: byte identity.  While a batch is held, each of its payload slices
\* is the byte view of the payload stored in the slot it stands for (a
\* written slot, holding a payload that was passed to an enqueue call), and
\* the batch's total_size is the sum of the byte lengths of exactly these
\* payloads.
C11_ByteIdentity ==
    cons.held =>
        /\ HeldLen = Len(cons.items)
        /\ HeldLen <= BufCapacity(HeldBuffer)
        /\ \A i \in 1..HeldLen :
             /\ HeldBuffer.owned[i] \in Payloads
             /\ HeldBuffer.slices[i + 1] = SliceOf(HeldBuffer.owned[i])
             /\ cons.items[i] = HeldBuffer.owned[i]
        /\ cons.total_size = SumSeqSizes(cons.items)

\* C11 witness: a batch of two payloads with bytes in it is held, got after
\* a snapshot had been deferred (a producer that reserved before the
\* rotation finished its insert after it)
C11_Witness ==
    /\ cons.held /\ cons.deferred
    /\ Len(cons.items) >= 2
    /\ cons.total_size > 0

\* the frame call took the full range `..` and neither header nor trailer
FullRangeNoneNone(f) ==
    /\ f.range = <<Unbounded, Unbounded>>
    /\ f.given = <<None, None>>

\* a frame call returns its frame in this step / a frame is dropped in it
FrameReturned == ~cons.frame.active /\ cons'.frame.active
FrameGone == cons.frame.active /\ ~cons'.frame.active

\* C12: framing neutrality.  frame(.., None, None) on a batch yields a
\* sub-view whose slices are the batch's payload slices (slots 1..n of its
\* slice array) and changes no slice; dropping that frame does not panic and
\* leaves the slice array as it is.
C12_FramingNeutrality ==
    /\ [][(FrameReturned /\ FullRangeNoneNone(cons'.frame)) =>
            (/\ FrameView' = PayloadSlices(BatchSlices)
             /\ UNCHANGED buffers)]_vars
    /\ [][(FrameGone /\ FullRangeNoneNone(cons.frame)) =>
            (/\ cons'.held /\ cons'.pc = "idle"
             /\ UNCHANGED buffers)]_vars

\* C12 witness: the full-range frame without header and trailer is alive on
\* a batch of two payloads, and it holds those two payloads' slices
C12_Witness ==
    /\ cons.held /\ cons.frame.active
    /\ FullRangeNoneNone(cons.frame)
    /\ Len(cons.items) = 2
    /\ ItemsOf(FrameView) = cons.items

\* the first index and the index after the last of the range <<start, end>>
\* as a range over n elements (core::ops::RangeBounds)
RangeLo(range) == FrameStart(range[1])
RangeHi(range, n) ==
    CASE range[2].kind = "Included" -> range[2].n + 1
      [] range[2].kind = "Excluded" -> range[2].n
      [] range[2].kind = "Unbounded" -> n

\* the range is in bounds of a sequence of n payload slices
RangeInBounds(range, n) == RangeLo(range) <= RangeHi(range, n) /\ RangeHi(range, n) <= n

\* the frame call was given both a header and a trailer
HeaderAndTrailer(f) == f.given[1].some /\ f.given[2].some

\* C13 (as claimed): header/trailer swap and restore.  frame(range, Some(h),
\* Some(t)) on an in-bounds range yields a sub-view whose first slice is h
\* and whose last slice is t; when that frame is dropped the batch's slice
\* array is again what it was before the frame call.
C13_SwapRestore ==
    /\ [][(FrameReturned /\ HeaderAndTrailer(cons'.frame)
             /\ RangeInBounds(cons'.frame.range, HeldLen)) =>
            (/\ FrameView' # <<>>
             /\ FrameView'[1] = cons'.frame.given[1].slice
             /\ FrameView'[Len(FrameView')] = cons'.frame.given[2].slice)]_vars
    /\ [][(FrameGone /\ HeaderAndTrailer(cons.frame)
             /\ RangeInBounds(cons.frame.range, HeldLen)) =>
            (/\ cons'.held
             /\ BatchSlices' = cons.frame.before)]_vars

\* C14: capacity monotonicity.  No step lowers the value capacity() returns
\* (the capacity of the active buffer) nor the target capacity, and
\* set_capacity with a value not above the target changes nothing.
C14_CapacityMonotone ==
    /\ [][QueueCapacity' >= QueueCapacity /\ capacity' >= capacity]_vars
    /\ [][\A c \in 1..MaxCap : (c <= capacity /\ SetCapacity(c)) => UNCHANGED vars]_vars

\* C14 witness: after set_capacity raised the target, a rotation made the
\* grown buffer the active one: capacity() is above the capacity the queue
\* was created with, which the drained buffer still has
C14_Witness ==
    /\ cons.held
    /\ cons.buffer_index # LowBit(buffer_remain)
    /\ tmp = <<>> /\ enq_ok # {}
    /\ \A p \in Producers : prod[p].op # "enqueue_unbounded"
    /\ QueueCapacity > BufCapacity(HeldBuffer)

\* C15 (as claimed): rotation correctness.  The batch got from a rotation
\* holds exactly the payloads that held a slot of the drained buffer when
\* the rotate compare-exchange succeeded, plus the overflow payloads that
\* were in tmp at that rotation.
C15_RotationBatch ==
    cons.held => Range(cons.items) = cons.reserved \cup cons.overflow

\* C15 (amended): the batch got from a rotation holds exactly the payloads
\* that held a slot of the drained buffer when the rotate compare-exchange
\* succeeded, each once; the overflow payloads that were in tmp at that
\* rotation are not in it: the rotation moved them into the buffer it made
\* active (and emptied tmp), so they come with the next batch.
C15_RotationBatchNextOverflow ==
    /\ [](cons.held =>
            /\ Range(cons.items) = cons.reserved
            /\ Cardinality(cons.reserved) = Len(cons.items)
            /\ cons.overflow \cap Range(cons.items) = {})
    /\ [][(cons.pc = "rotate" /\ cons'.pc = "get") =>
            (/\ tmp' = <<>>
             /\ Range(tmp) \subseteq Range(buffers'[LowBit(buffer_remain')].owned))]_vars

\* C15 witness: a batch is held whose rotation found an overflow payload in
\* tmp; the batch holds the payload that filled the drained buffer
C15_Witness ==
    /\ cons.held
    /\ cons.overflow # {}
    /\ cons.items # <<>>

\* C16: in-batch order follows reservation order.  With try_enqueue only
\* (payload ids are handed out in the order the calls reserve their slots),
\* the batch presents its payloads in reservation order: the earliest
\* reserved at the lowest payload index.  So one producer's payloads come in
\* the order it enqueued them.
C16_ReservationOrder ==
    cons.held =>
        /\ Range(cons.items) \subseteq Payloads
        /\ \A i, j \in 1..Len(cons.items) : i < j => cons.items[i] < cons.items[j]

\* C16 witness: a batch of two payloads is held; with two producers, the
\* later reserver had finished its insert before the earlier one, or not
C16_Witness ==
    /\ cons.held
    /\ Len(cons.items) = 2
    /\ cons.deferred

\* producers p and q have both written their payload into the same buffer
\* and not yet published it, and p reserved before q: its reservation number
\* (the remaining_slots it reserved with) is the larger one
WrittenEarlier(p, q) ==
    /\ prod[p].pc = "insert_p" /\ prod[q].pc = "insert_p"
    /\ LowBit(prod[p].br) = LowBit(prod[q].br)
    /\ Shr1(prod[p].br) > Shr1(prod[q].br)

\* the indices of the buffer's slice array that hold the slice of p's payload
SlicePositions(p) ==
    LET b == buffers[LowBit(prod[p].br)]
    IN  {k \in 1..Len(b.slices) : b.slices[k] = SliceOf(prod[p].bytes)}

\* C17 (as claimed): slices are ordered by decreasing reservation number
\* with the earlier reserver at the higher index of the slice array.
C17_EarlierHigher ==
    \A p, q \in Producers :
        WrittenEarlier(p, q) =>
            \E kp \in SlicePositions(p), kq \in SlicePositions(q) : kp > kq

\* C17 (amended): slices are ordered by decreasing reservation number, and
\* the earlier reserver, which has the larger number, is at the lower index
\* of the slice array: reservation number k lands at storage index
\* capacity - k, that is at slice index capacity - k + 1.
C17_EarlierLower ==
    \A p, q \in Producers :
        WrittenEarlier(p, q) =>
            /\ \E kp \in SlicePositions(p), kq \in SlicePositions(q) : kp < kq
            /\ \A r \in {p, q} :
                 SlicePositions(r) =
                    {BufCapacity(buffers[LowBit(prod[r].br)]) - Shr1(prod[r].br) + 2}

\* C17 witness: two producers have written their payloads into the same
\* buffer, the later reserver's call having started after a rotation
C17_Witness ==
    /\ \E p, q \in Producers : WrittenEarlier(p, q)
    /\ \E x \in Payloads : delivered[x] = 1


\* C18: no dequeue call made through the blocking adapter returns Conflict,
\* a call made while a batch it returned earlier is still held included.
\* (In this specification every try_dequeue is made by dequeue_vectored.)
C18_NoConflictThroughAdapter == cons.res # "Conflict"

\* the consumer thread is inside dequeue_vectored()
ConsumerInDequeue == sync.pc[ConsumerThread] \in {"lock", "try", "wait", "relock"}

\* some payload whose enqueue succeeded is in no batch yet
EnqueuedNotReturned == \E x \in enq_ok : delivered[x] = 0 /\ x \notin Range(cons.items)

\* the consumer's dequeue_vectored() has returned a batch
BatchReturned == sync.pc[ConsumerThread] = "idle" /\ cons.held

\* C19: while the queue is open and the consumer thread, holding no batch,
\* is inside dequeue_vectored(), an enqueue that succeeded leads to that call
\* returning a batch (or to close(), or to a panic, which are other claims'
\* matter), under fair scheduling.
C19_NoLostWakeup ==
    (ConsumerInDequeue /\ ~cons.held /\ EnqueuedNotReturned /\ ~user_closed)
        ~> (BatchReturned \/ user_closed \/ cons.pc = "panicked"
              \/ sync.pc[ConsumerThread] = "panicked")

\* producer p is blocked in enqueue(): its first try_enqueue returned Full
\* and the call has not returned since
BlockedInEnqueue(p) == sync.pc[p] \in {"lock", "locked", "full", "wait", "relock"}

\* producer p's enqueue() has returned Closed with the payload it was given
ReturnedClosed(p) ==
    /\ sync.pc[p] = "idle"
    /\ prod[p].res = "Closed"

\* nothing is in the queue: no slot of the active buffer is reserved, tmp is
\* empty and no batch is out
QueueEmpty ==
    /\ ActiveRemaining = BufCapacity(CurrentBuffer)
    /\ tmp = <<>>
    /\ IsArmed(pending_dequeue)

\* the mutex was poisoned, or the consumer thread panicked
AdapterPanicked ==
    \/ sync.lock = Poisoned
    \/ cons.pc = "panicked"
    \/ \E t \in Threads : sync.pc[t] = "panicked"

\* C20: after close(), every producer blocked in enqueue() eventually returns
\* Closed, and the consumer blocked in dequeue_vectored() on an empty queue
\* eventually returns Closed, under fair scheduling (close() is never undone
\* in this specification; a panic is another claim's matter).
C20_CloseWakesAll ==
    /\ \A p \in Producers :
          (user_closed /\ BlockedInEnqueue(p)) ~> (ReturnedClosed(p) \/ AdapterPanicked)
    /\ (user_closed /\ ConsumerInDequeue /\ QueueEmpty)
          ~> (\/ sync.pc[ConsumerThread] = "idle" /\ cons.res = "Closed"
              \/ AdapterPanicked)

\* pending_dequeue is Armed(i): not the sentinel, no draining length
Armed == pending_dequeue # USIZE_MAX /\ IsArmed(pending_dequeue)

\* pending_dequeue is Deferred(i, n) with n >= 1
Deferred == pending_dequeue # USIZE_MAX /\ ~IsArmed(pending_dequeue)

\* C21: whenever pending_dequeue is armed (so that the next try_dequeue takes
\* the rotate path with it), its index is the active_index bit of
\* buffer_remain: assert_eq!(buffer_index, buffer_remain & 1) holds, and no
\* thread of the core has panicked.
C21_RotateAssertion ==
    /\ Armed => LowBit(pending_dequeue) = LowBit(buffer_remain)
    /\ cons.pc # "panicked"
    /\ \A p \in Producers : prod[p].pc # "panicked"

\* C22 (I2): whenever pending_dequeue is not the sentinel, its drain_index
\* bit differs from the active_index bit of buffer_remain.
C22_IndicesDiffer ==
    pending_dequeue # USIZE_MAX => LowBit(pending_dequeue) # LowBit(buffer_remain)

\* C22 as the code has it: an armed pending_dequeue names the active buffer
\* (or the queue is in the state the growth from capacity 0 leaves: word
\* GrownFromZero, pending_dequeue still 0), and a deferred one names the
\* other buffer.
C22_ArmedSameDeferredOther ==
    /\ Armed => \/ LowBit(pending_dequeue) = LowBit(buffer_remain)
                \/ /\ WithoutClosedFlag(buffer_remain) = GrownFromZero
                   /\ pending_dequeue = 0
    /\ Deferred => LowBit(pending_dequeue) # LowBit(buffer_remain)

\* a snapshot is deferred on buffer 0 while buffer 1 is the active one
C22_Witness ==
    /\ Deferred
    /\ LowBit(pending_dequeue) = 0
    /\ LowBit(buffer_remain) = 1
    /\ cons.res = "Pending"

\* the index of the buffer that is not the active one
NonActiveIndex == NotLowBit(buffer_remain)

\* buffer i is empty: published length 0 and no producer between its
\* reservation in i and the end of its insert
EmptyBuffer(i) ==
    /\ buffers[i].len = 0
    /\ \A p \in Producers :
          prod[p].pc \in {"insert_w", "insert_p"} => LowBit(prod[p].br) # i

\* the consumer holds a batch that is a view of buffer i
HeldAsBatch(i) == cons.held /\ cons.buffer_index = i

ReturnsPending == cons.pc = "get" /\ cons'.pc = "idle" /\ cons'.res = "Pending"

\* this step is the entry of a try_dequeue that finds a deferred snapshot
ResumesDeferred == cons.pc = "idle" /\ Deferred /\ pending_dequeue' = USIZE_MAX

\* this step is a try_dequeue that resumed a deferred snapshot returning a batch
ResumedReturnsBatch ==
    cons.pc = "get" /\ ~IsArmed(cons.pending) /\ ~cons.held /\ cons'.held

\* C24: a try_dequeue that returns Pending leaves pending_dequeue as
\* Deferred(i, len) with the buffer i and the length len >= 1 it was waiting
\* for; the next try_dequeue changes neither buffer_remain nor the buffers,
\* the overflow or the capacity, and goes to the snapshot of the same buffer
\* at the same length; the batch it returns has exactly len payloads and
\* holds every payload that had a slot of the buffer at the rotation, the
\* late producer's included.
C24_PendingResumes ==
    [][/\ ReturnsPending =>
            /\ pending_dequeue' # USIZE_MAX
            /\ ~IsArmed(pending_dequeue')
            /\ cons.len >= 1
            /\ LowBit(pending_dequeue') = cons.buffer_index
            /\ Shr1(pending_dequeue') = cons.len
       /\ ResumesDeferred =>
            /\ cons'.pc = "get"
            /\ cons'.buffer_index = LowBit(pending_dequeue)
            /\ cons'.len = Shr1(pending_dequeue)
            /\ UNCHANGED <<buffer_remain, buffers, tmp, capacity>>
       /\ ResumedReturnsBatch =>
            /\ Len(cons'.items) = cons.len
            /\ cons'.buffer_index = cons.buffer_index
            /\ Range(cons'.items) = cons.reserved]_vars

\* pending_dequeue is Held: the sentinel
Held == pending_dequeue = USIZE_MAX

\* this step is a try_dequeue returning a batch
ReturnsBatch == cons.pc = "get" /\ ~cons.held /\ cons'.held

\* this step is the drop of the held batch
DropsBatch == cons.held /\ ~cons'.held

\* C25: every change of pending_dequeue is Armed(i) -> Held at the entry of
\* try_dequeue, Held -> Deferred(i, n) at its Pending exit (i the buffer the
\* call was draining), Deferred(i, n) -> Held at the entry of the resuming
\* call (which goes on with buffer i), or Held -> Armed(i XOR 1) at the drop
\* of the batch of buffer i; the Empty / Closed exit puts Armed(i) back (the
\* call leaves pending_dequeue as it found it).  A batch is a view of the
\* buffer its call's ticket named, so successive batches alternate.
C25_TicketStateMachine ==
    [][/\ pending_dequeue' # pending_dequeue =>
            \/ Armed /\ Held' /\ cons.pc = "idle" /\ cons'.pc # "idle"
            \/ Held /\ Deferred' /\ ReturnsPending
                     /\ LowBit(pending_dequeue') = cons.buffer_index
            \/ Deferred /\ Held' /\ cons.pc = "idle" /\ cons'.pc = "get"
                         /\ cons'.buffer_index = LowBit(pending_dequeue)
            \/ Held /\ Armed' /\ DropsBatch
                     /\ LowBit(pending_dequeue') = NotLowBit(cons.buffer_index)
       /\ (cons.pc = "idle" /\ cons'.pc = "idle" /\ cons'.res \in {"Empty", "Closed"}
              /\ cons.res # cons'.res) => (Armed /\ UNCHANGED pending_dequeue)
       /\ ReturnsBatch =>
            /\ Held /\ Held'
            /\ cons'.buffer_index = LowBit(cons.pending)]_vars

\* the second batch, out of buffer 1, is held, and a snapshot had been
\* deferred on the way
C25_Witness ==
    /\ cons.held
    /\ cons.buffer_index = 1
    /\ cons.deferred
    /\ Held

\* the storage slot (from 1) of buffer b that insert writes for reservation
\* number slot
SlotOf(b, slot) == InsertIndex(BufCapacity(b), slot) + 1

\* storage slot k of buffer b exists and holds no payload
FreeSlot(b, k) == k \in 1..BufCapacity(b) /\ b.owned[k] = Uninit

\* this step is producer p's insert writing its payload
ProducerWrites(p) == prod[p].pc = "insert_w" /\ prod'[p].pc # "insert_w"

\* this step is a rotation that moves the overflow into the next buffer
PrefillWrites == cons.pc = "rotate" /\ tmp # <<>> /\ tmp' = <<>>

\* C26 (I3): every insert, by a producer that reserved through try_enqueue
\* or by the rotation's overflow pre-fill, writes a storage slot that lies
\* inside the buffer and holds no payload (so no slot is written twice
\* between two clears, and no live payload is overwritten).
C26_ExclusiveSlots ==
    [][/\ \A p \in Producers :
            ProducerWrites(p) =>
                LET b == buffers[LowBit(prod[p].br)]
                IN  /\ prod'[p].pc = "insert_p"
                    /\ FreeSlot(b, SlotOf(b, Shr1(prod[p].br)))
       /\ PrefillWrites =>
            LET i == NotLowBit(cons.br)
                next_capa == NextCapa(BufCapacity(buffers[i]), Len(tmp), capacity)
                b == ResizedBuffer(buffers[i], next_capa)
            IN  /\ \A k \in 1..Len(tmp) :
                      /\ FreeSlot(b, SlotOf(b, next_capa - (k - 1)))
                      /\ SlotOf(b, next_capa - (k - 1)) = k
                /\ \A p \in Producers :
                      (prod[p].pc = "insert_w" /\ LowBit(prod[p].br) = i) =>
                          SlotOf(b, Shr1(prod[p].br)) > Len(tmp)]_vars

\* while a batch is held, the active buffer holds the overflow the rotation
\* pre-filled, from its first slot on, and after it a payload a producer
\* inserted
C26_Witness ==
    /\ cons.held
    /\ cons.overflow # {}
    /\ CurrentBuffer.owned[1] \in cons.overflow
    /\ \E k \in 2..BufCapacity(CurrentBuffer) :
          /\ CurrentBuffer.owned[k] \in Payloads \ cons.overflow
          /\ CurrentBuffer.len = k

\* this step is a rotation: the active buffer changes under the tmp mutex
Rotates == cons.pc = "rotate" /\ tmp_lock # Poisoned /\ cons'.pc # "rotate"

\* C27: a rotation moves the overflow, in push order, into the first storage
\* slots (and payload slices) of the buffer it makes active, leaves the
\* overflow empty, and publishes as remaining_slots the capacity of that
\* buffer less the number of overflow payloads; the batch later drained from
\* that buffer starts with those payloads, followed by the payloads reserved
\* in it since.
C27_OverflowHeadsNextBatch ==
    [][/\ Rotates =>
            LET i == LowBit(buffer_remain')
                b == buffers'[i]
            IN  /\ tmp' = <<>>
                /\ b.len = Len(tmp)
                /\ \A k \in 1..Len(tmp) :
                      /\ b.owned[k] = tmp[k]
                      /\ b.slices[k + 1] = SliceOf(tmp[k])
                /\ Shr1(WithoutClosedFlag(buffer_remain')) = BufCapacity(b) - Len(tmp)
       /\ ReturnsBatch =>
            LET head == cons.prefilled[cons.buffer_index]
                items == cons'.items
            IN  /\ Len(items) >= Len(head)
                /\ SubSeq(items, 1, Len(head)) = head
                /\ Range(SubSeq(items, Len(head) + 1, Len(items)))
                       = cons.reserved \ Range(head)]_vars

\* a batch is held that starts with an overflow payload and goes on with a
\* payload reserved after the rotation that moved the overflow
C27_Witness ==
    /\ cons.held
    /\ cons.prefilled[cons.buffer_index] # <<>>
    /\ Len(cons.items) > Len(cons.prefilled[cons.buffer_index])

\* this step replaces the storage and the slice array of buffer i
ResizeReplaces(i) == BufCapacity(buffers'[i]) # BufCapacity(buffers[i])

\* a producer is between its reservation in buffer i and the end of its insert
MidInsert(i) ==
    \E p \in Producers :
        prod[p].pc \in {"insert_w", "insert_p"} /\ LowBit(prod[p].br) = i

\* buffer i holds a payload that was written and not dropped since
LivePayload(i) == \E k \in 1..BufCapacity(buffers[i]) : buffers[i].owned[k] # Uninit

\* C28: whenever a step replaces the storage of a buffer (the rotation's
\* resize of the next buffer, enqueue_unbounded's resize of both buffers at
\* capacity 0), no producer is mid-insert on that buffer and it holds no
\* live payload; and resize to a capacity not larger than the buffer's
\* changes nothing.
C28_ResizeSafety ==
    /\ [][\A i \in 0..1 :
             ResizeReplaces(i) =>
                 /\ ~MidInsert(i)
                 /\ ~LivePayload(i)
                 /\ buffers[i].len = 0]_vars
    /\ [](\A i \in 0..1 : \A c \in 0..BufCapacity(buffers[i]) :
             ResizedBuffer(buffers[i], c) = buffers[i])

\* the batch of buffer 0 is held, with its payloads alive, and the rotation
\* that produced it has resized buffer 1 beyond buffer 0's capacity
C28_Witness ==
    /\ cons.held
    /\ cons.buffer_index = 0
    /\ LivePayload(0)
    /\ BufCapacity(buffers[1]) > BufCapacity(buffers[0])
    /\ BufCapacity(buffers[0]) > 0

\* C29 (I6): whenever the overflow is not empty, the active buffer has no
\* remaining slot.
C29_OverflowOnlyWhenFull == tmp # <<>> => ActiveRemaining = 0

\* two payloads are in the overflow of a queue whose active buffer has a
\* positive capacity and was filled by reservations
C29_Witness ==
    /\ Len(tmp) = 2
    /\ BufCapacity(CurrentBuffer) >= 1
    /\ CurrentBuffer.len = BufCapacity(CurrentBuffer)
    /\ ActiveRemaining = 0

====
